---------------------------- MODULE Spec2Model ----------------------------
(***************************************************************************)
(* Torre de Controle - CS Interno (src/app.py): the Streamlit script that  *)
(* fetches the open Intercom conversations, enriches each with team,       *)
(* city, branch and regional, stores the result in the session for         *)
(* REFRESH_SECS seconds, and shows the per-team aggregate.                 *)
(*                                                                         *)
(* Text is kept as TLA+ strings and processed character by character, as   *)
(* the Python code does.  A JSON / Python value that may be None is a      *)
(* tagged record: None, JStr(s), JNum(n), JBool(b).                        *)
(***************************************************************************)
EXTENDS Integers, Sequences, FiniteSets, TLC

----------------------------------------------------------------------------
(* Python values *)

None == [kind |-> "none"]

JStr(s) == [kind |-> "str", val |-> s]

JNum(n) == [kind |-> "num", val |-> n]

JBool(b) == [kind |-> "bool", val |-> b]

\* Python truthiness: None, "", 0 and False are falsy.
Truthy(v) ==
    CASE v.kind = "none" -> FALSE
      [] v.kind = "str"  -> v.val # ""
      [] v.kind = "num"  -> v.val # 0
      [] v.kind = "bool" -> v.val

----------------------------------------------------------------------------
(* Characters.  The tables list the characters that occur in the program's *)
(* tables and in the inputs the model draws; CodePoints lists them in      *)
(* code point order.                                                       *)

CodePoints ==
    "\t -0123456789ABCDEFGHIJKLMNOPQRSTUVWXYZabcdefghijklmnopqrstuvwxyzÃÍßáâãçéêíóõúü"

Accented ==
    "ÃÍáâãçéêíóõúü"

Unaccented ==
    "AIaaaceeioouu"

UpperCase ==
    "ABCDEFGHIJKLMNOPQRSTUVWXYZÃÍ"

LowerCase ==
    "abcdefghijklmnopqrstuvwxyzãí"

Whitespace ==
    " \t"

Has(s, ch) == \E i \in 1..Len(s) : SubSeq(s, i, i) = ch

IndexOf(s, ch) == CHOOSE i \in 1..Len(s) : SubSeq(s, i, i) = ch

Translate(ch, from, to) ==
    IF Has(from, ch) THEN SubSeq(to, IndexOf(from, ch), IndexOf(from, ch)) ELSE ch

IsSpace(ch) == Has(Whitespace, ch)

\* unicodedata.normalize("NFKD", ch) with the combining marks removed
StripAccent(ch) == Translate(ch, Accented, Unaccented)

\* str.casefold of one character: lower case, and sharp s folds to "ss"
CaseFold(ch) == IF ch = "ß" THEN "ss" ELSE Translate(ch, UpperCase, LowerCase)

\* str.lower of one character
Lower(ch) == Translate(ch, UpperCase, LowerCase)

Ord(ch) == IndexOf(CodePoints, ch)

Char(s, i) == SubSeq(s, i, i)

\* str.upper of one character
Upper(ch) == Translate(ch, LowerCase, UpperCase)

\* one character under a per-character conversion
MapChar(how, ch) ==
    CASE how = "unaccent" -> StripAccent(ch)
      [] how = "casefold" -> CaseFold(ch)
      [] how = "lower"    -> Lower(ch)
      [] how = "upper"    -> Upper(ch)

\* "".join(how(ch) for ch in s)
MapChars(how, s) ==
    LET acc[i \in 0..Len(s)] ==
            IF i = 0 THEN "" ELSE acc[i - 1] \o MapChar(how, Char(s, i))
    IN  acc[Len(s)]

\* str.strip(): from the first to the last character that is not whitespace
Strip(s) ==
    LET solid == {i \in 1..Len(s) : ~IsSpace(Char(s, i))}
    IN  IF solid = {} THEN ""
        ELSE SubSeq(s, CHOOSE i \in solid : \A j \in solid : i <= j,
                       CHOOSE i \in solid : \A j \in solid : i >= j)

\* " ".join(s.split()): whitespace runs collapse to one space, none at the ends
JoinSplit(s) ==
    LET Sep(i) == /\ IsSpace(Char(s, i))
                  /\ i > 1 /\ ~IsSpace(Char(s, i - 1))
                  /\ \E j \in (i+1)..Len(s) : ~IsSpace(Char(s, j))
        acc[i \in 0..Len(s)] ==
            IF i = 0 THEN ""
            ELSE IF ~IsSpace(Char(s, i)) THEN acc[i - 1] \o Char(s, i)
            ELSE IF Sep(i) THEN acc[i - 1] \o " "
            ELSE acc[i - 1]
    IN  acc[Len(s)]

\* str.startswith
StartsWith(s, p) == Len(s) >= Len(p) /\ SubSeq(s, 1, Len(p)) = p

Min(a, b) == IF a <= b THEN a ELSE b

\* Python's < on str: lexicographic by code point
StrLess(a, b) ==
    LET diff == {i \in 1..Min(Len(a), Len(b)) : Char(a, i) # Char(b, i)}
    IN  IF diff = {} THEN Len(a) < Len(b)
        ELSE LET i == CHOOSE i \in diff : \A j \in diff : i <= j
             IN  Ord(Char(a, i)) < Ord(Char(b, i))

\* str(n) of a natural number
DecStr(n) ==
    LET Digit(d) == Char("0123456789", d + 1)
        dec[m \in 0..n] ==
            IF m < 10 THEN Digit(m) ELSE dec[m \div 10] \o Digit(m % 10)
    IN  dec[n]

\* str(v) of a Python value
PyStr(v) ==
    CASE v.kind = "none" -> "None"
      [] v.kind = "str"  -> v.val
      [] v.kind = "num"  -> DecStr(v.val)
      [] v.kind = "bool" -> IF v.val THEN "True" ELSE "False"

----------------------------------------------------------------------------
(* Dict literals and dict-building loops: a sequence of <<key, value>>      *)
(* pairs in source order.  A repeated key keeps its first position and      *)
(* takes the last value.                                                    *)

\* the sequence as an explicit tuple (evaluated once, not on every use)
Materialize(seq) == SubSeq(seq, 1, Len(seq))

DictHas(pairs, k) == \E i \in 1..Len(pairs) : pairs[i][1] = k

DictGet(pairs, k) ==
    LET last == CHOOSE i \in 1..Len(pairs) :
                    /\ pairs[i][1] = k
                    /\ \A j \in (i+1)..Len(pairs) : pairs[j][1] # k
    IN  pairs[last][2]

\* dict.items(): each key once, at its first position, with its last value
DictItems(pairs) ==
    LET idx    == [i \in 1..Len(pairs) |-> i]
        firsts == SelectSeq(idx, LAMBDA i :
                      \A j \in 1..(i-1) : pairs[j][1] # pairs[i][1])
    IN  Materialize([n \in 1..Len(firsts) |->
            <<pairs[firsts[n]][1], DictGet(pairs, pairs[firsts[n]][1])>>])

----------------------------------------------------------------------------
(* Program constants and tables *)

REFRESH_SECS == 600

NAO_ATRIBUIDO == "Não atribuído"

NAO_MAPEADO == "NÃO MAPEADO"

EXCLUDE_ADMINS == {"Suporte Mottu", NAO_ATRIBUIDO}

TEAM_MAP_RAW ==
    << <<"App", "APP">>, <<"Gerbert Santos Santos", "APP">>,
       <<"Suporte Mottu", "BOT">>, <<"Pedro Henrique Stival", "CUSTOMER SUCCESS">>,
       <<"Thaís", "STORE">>, <<"Beatriz", "CUSTOMER SUCCESS">>,
       <<"Thiago Valcácio de Assis", "CS DUVIDAS">>, <<"João Pradella", "VENDAS">>,
       <<"Time de Acidentes", "FLEET ACIDENTES">>, <<"Felipe Ryu Nakamura", "FLEET DOCUMENTACOES">>,
       <<"Time Alerta", "FLEET DOCUMENTACOES">>, <<"Time de Ocorrências", "FLEET DOCUMENTACOES">>,
       <<"rogerio henrique correia filho", "FLEET PATIO">>, <<"Lucas Araújo Silva", "FLEET SUPORTE DE RUA">>,
       <<"Cristtiane Moreira", "FLEET SUPORTE DE RUA">>, <<"Gilberto Silva", "FLEET SUPORTE DE RUA">>,
       <<"Time Suporte de Rua", "FLEET SUPORTE DE RUA">>, <<"Engenharia", "MAINTENANCE">>,
       <<"MinhaMottu", "MINHA MOTTU">>, <<"João Ferrarini", "CREDITO">>,
       <<"Multas", "MULTAS">>, <<"Operações", "OPERATIONS">>,
       <<"Pagamentos", "PAYMENTS">>, <<"Bárbara Hülse", "PEOPLE">>,
       <<"Regulatório", "REGULATORIO">>, <<"Felipe Chao", "MINHA MOTTU">>,
       <<"Supply Chain", "SUPPLY">>, <<"Mottu Store", "STORE">>,
       <<"Ricardo Goes", "TOTEM ATTENDANCE">>, <<"Camila Camargo", "STORE">>,
       <<"Giulia", "OPERATIONS">>, <<"Patrick Freitas", "PARCERIAS E BENEFÍCIOS">>,
       <<"Apreensões - Pátio", "FLEET DOCUMENTACOES">>, <<"Thiago Castro", "FLEET PATIO">>,
       <<"Yasmin", "MINHA MOTTU">>, <<"Time de Acidentes", "SINISTRO">> >>

filiais ==
    << <<"Mottu Abaetetuba", 282>>, <<"Mottu Alagoinhas", 110>>, <<"Mottu Ananindeua", 122>>,
       <<"Mottu Anápolis", 58>>, <<"Mottu Aparecida de Goiânia", 123>>, <<"Mottu Aracaju", 29>>,
       <<"Mottu Aracati", 274>>, <<"Mottu Arapiraca", 52>>, <<"Mottu Araçatuba", 109>>,
       <<"Mottu Avaré", 454>>, <<"Mottu Barreiras", 259>>, <<"Mottu Bauru", 175>>,
       <<"Mottu Bayeux", 384>>, <<"Mottu Belo Horizonte", 3>>, <<"Mottu Belém", 18>>,
       <<"Mottu Blumenau", 356>>, <<"Mottu Boa Vista", 61>>, <<"Mottu Bragança", 238>>,
       <<"Mottu Brasília", 10>>, <<"Mottu Vila Leopoldina", 477>>, <<"Mottu Cabo Frio", 283>>,
       <<"Mottu Camaçari", 173>>, <<"Mottu Campina Grande", 38>>, <<"Mottu Campinas", 7>>,
       <<"Mottu Campo Grande", 31>>, <<"Mottu Campos dos Goytacazes", 285>>, <<"Mottu Caruaru", 39>>,
       <<"Mottu Cascavel", 397>>, <<"Mottu Castanhal", 365>>, <<"Mottu Caucaia", 458>>,
       <<"Mottu Caxias", 366>>, <<"Mottu Caxias do Sul", 69>>, <<"Mottu Colatina", 474>>,
       <<"Mottu Contagem", 53>>, <<"Mottu Crato", 295>>, <<"Mottu Criciúma", 51>>,
       <<"Mottu Cuiabá", 30>>, <<"Mottu Curitiba", 4>>, <<"Mottu Divinópolis", 174>>,
       <<"Mottu Dourados", 77>>, <<"Mottu Duque de Caxias", 469>>, <<"Mottu Eunápolis", 417>>,
       <<"Mottu Feira de Santana", 40>>, <<"Mottu Florianópolis", 32>>, <<"Mottu Fortaleza", 9>>,
       <<"Mottu Franca", 75>>, <<"Mottu Fátima", 114>>, <<"Mottu Goiânia", 15>>,
       <<"Mottu Governador Valadares", 76>>, <<"Mottu Guarulhos", 83>>, <<"Mottu Icoaraci", 404>>,
       <<"Mottu Imperatriz", 65>>, <<"Mottu Interlagos", 37>>, <<"Mottu Ipatinga", 55>>,
       <<"Mottu Ipiranga", 94>>, <<"Mottu Ipojuca", 267>>, <<"Mottu Itabuna", 116>>,
       <<"Mottu Itajaí", 111>>, <<"Mottu Itapetininga", 449>>, <<"Mottu Itapipoca", 357>>,
       <<"Mottu Jacarepaguá", 248>>, <<"Mottu Jandira", 41>>, <<"Mottu Jequié", 271>>,
       <<"Mottu Ji Paraná", 416>>, <<"Mottu Joinville", 56>>, <<"Mottu João Pessoa", 28>>,
       <<"Mottu Juazeiro", 45>>, <<"Mottu Juazeiro do Norte", 46>>, <<"Mottu Juiz de Fora", 95>>,
       <<"Mottu Jundiaí", 33>>, <<"Mottu Lagarto", 462>>, <<"Mottu Limão - Zona Norte", 36>>,
       <<"Mottu Linhares", 258>>, <<"Mottu Londrina", 49>>, <<"Mottu Macapá", 66>>,
       <<"Mottu Macaé", 266>>, <<"Mottu Maceió", 22>>, <<"Mottu Manaus", 5>>,
       <<"Mottu Marabá", 68>>, <<"Mottu Maracanaú", 180>>, <<"Mottu Maringá", 50>>,
       <<"Mottu Messejana", 402>>, <<"Mottu Mexico CDMX Cien Metros", 85>>, <<"Mottu Mexico CDMX Colegio Militar", 11>>,
       <<"Mottu Mexico CDMX Tlalpan", 71>>, <<"Mottu Mexico Cancún", 107>>, <<"Mottu Mexico Guadalajara", 47>>,
       <<"Mottu Mexico Guadalajara Centro", 113>>, <<"Mottu Mexico Los Reyes", 413>>, <<"Mottu Mexico Monterrey", 43>>,
       <<"Mottu Mexico Monterrey La Fe", 106>>, <<"Mottu Mexico Mérida", 249>>, <<"Mottu Mexico Puebla", 48>>,
       <<"Mottu Mexico Querétaro", 42>>, <<"Mottu Mexico Toluca", 459>>, <<"Mottu Mogi das Cruzes", 86>>,
       <<"Mottu Montes Claros", 57>>, <<"Mottu Mossoró", 67>>, <<"Mottu Natal", 27>>,
       <<"Mottu Niterói", 105>>, <<"Mottu Olinda", 84>>, <<"Mottu Palmas", 60>>,
       <<"Mottu Parauapebas", 79>>, <<"Mottu Parnamirim", 118>>, <<"Mottu Parnaíba", 115>>,
       <<"Mottu Patos", 300>>, <<"Mottu Pelotas", 203>>, <<"Mottu Petrolina", 309>>,
       <<"Mottu Pindamonhangaba", 311>>, <<"Mottu Piracicaba", 44>>, <<"Mottu Piçarreira", 183>>,
       <<"Mottu Ponta Grossa", 319>>, <<"Mottu Porto Alegre", 8>>, <<"Mottu Porto Seguro", 329>>,
       <<"Mottu Porto Velho", 59>>, <<"Mottu Pouso Alegre", 472>>, <<"Mottu Praia Grande", 82>>,
       <<"Mottu Presidente Prudente", 252>>, <<"Mottu Recife", 16>>, <<"Mottu Ribeirão Preto", 17>>,
       <<"Mottu Rio Branco", 62>>, <<"Mottu Rio Verde", 73>>, <<"Mottu Rondonópolis", 70>>,
       <<"Mottu Salvador", 6>>, <<"Mottu Santa Maria", 455>>, <<"Mottu Santarém", 81>>,
       <<"Mottu Santos", 24>>, <<"Mottu Serra", 19>>, <<"Mottu Sete Lagoas", 372>>,
       <<"Mottu Sobral", 74>>, <<"Mottu Sorocaba", 34>>, <<"Mottu São Bernardo", 23>>,
       <<"Mottu São Carlos", 64>>, <<"Mottu São José do Rio Preto", 63>>, <<"Mottu São José dos Campos", 20>>,
       <<"Mottu São Luís", 21>>, <<"Mottu São Miguel", 13>>, <<"Mottu Taboão", 35>>,
       <<"Mottu Teixeira de Freitas", 284>>, <<"Mottu Teresina", 26>>, <<"Mottu Toledo", 463>>,
       <<"Mottu Uberaba", 78>>, <<"Mottu Uberlândia", 25>>, <<"Mottu Valparaíso", 310>>,
       <<"Mottu Vila Isabel", 225>>, <<"Mottu Vila Velha", 72>>, <<"Mottu Vitória", 405>>,
       <<"Mottu Vitória da Conquista", 80>>, <<"Mottu Vitória de Santo Antão", 250>>, <<"Mottu Volta Redonda", 396>>,
       <<"Mottu Várzea Grande", 473>>, <<"Mottu Foz do Iguaçu", 511>>, <<"Mottu Passo Fundo", 522>>,
       <<"Mottu Sinop", 526>>, <<"Mottu Itumbiara", 537>>, <<"Mottu Lages", 527>>,
       <<"Mottu Patos de Minas", 509>>, <<"Mottu Cachoeiro de Itapemirim", 505>>, <<"Mottu Cariacica", 489>>,
       <<"Mottu Nossa Senhora do Socorro", 507>>, <<"Mottu Anápolis", 58>>, <<"Mottu MX Edomex Coacalco", 499>>,
       <<"Mottu México CDMX Iztapalapa", 87>>, <<"Mottu Campo Grande - RJ", 497>>, <<"Mottu São José do Ribamar", 513>>,
       <<"Mottu São Mateus", 514>>, <<"Mottu Ourinhos", 475>>, <<"Mottu Nova Iguaçu", 478>>,
       <<"Mottu Madureira", 476>>, <<"Mottu Poços de Caldas", 515>>, <<"Mottu Americana", 533>>,
       <<"Mottu Marília", 536>>, <<"Mottu Botucatu", 523>>, <<"Mottu Votuporanga", 542>>,
       <<"Mottu Varginha", 546>>, <<"Mottu Chapecó", 544>>, <<"Mottu Caxias", 366>>,
       <<"Mottu Ji Paraná", 416>>, <<"Mottu Itapetininga", 449>>, <<"Mottu Campos dos Goytacazes", 285>>,
       <<"Mottu Ponta Grossa", 319>>, <<"Mottu Cascavel", 397>> >>

regionais_base ==
    << <<"Francisco", <<61, 5, 59, 30, 4, 29, 28, 26, 27, 6, 21, 114, 9, 84, 16, 122, 18, 17>> >>,
       <<"Bruno", <<31, 62, 66, 25, 68, 63, 81, 79, 38, 8, 3, 72, 19, 15, 118, 40, 46, 39>> >>,
       <<"Flávio", <<82, 24, 35, 94, 83, 36, 23, 41, 477, 37, 13, 86, 7, 33, 34, 44>> >>,
       <<"Júlio", <<22, 52, 57, 74, 67, 78, 116, 60, 65, 32, 111, 404, 56, 10, 45, 309, 53, 58, 123, 105, 402, 183, 173, 180, 20, 75>> >>,
       <<"Leonardo", <<55, 474, 259, 285, 300, 77, 511, 416, 522, 526, 537, 527, 509, 455, 505, 357, 463, 397, 174, 203, 372, 473, 319, 489, 462, 507, 476, 478, 497, 396, 366, 513, 267, 514, 449, 454, 475, 472, 515, 533, 536, 523, 542, 546, 544>> >>,
       <<"Lucas", <<42, 48, 107, 249, 113, 47, 43, 106, 71, 499, 459, 87, 413, 85, 11>> >>,
       <<"Rogério", <<69, 70, 73, 76, 110, 115, 271, 274, 258, 329, 51, 95, 284, 252, 238, 80, 109, 49, 50, 310, 295, 405, 384, 225, 248, 266, 283, 250, 365, 282, 64, 175, 311, 469, 417, 356, 458>> >> >>

----------------------------------------------------------------------------
(* Normalisation and the derived tables *)

\* _norm: strip, remove accents, collapse whitespace, casefold
_norm(s) ==
    LET s1 == Strip(IF s = None THEN "" ELSE PyStr(s))
        s2 == MapChars("unaccent", s1)
        s3 == JoinSplit(s2)
    IN  MapChars("casefold", s3)

\* _city_from_filial: the branch label without its "Mottu " prefix
_city_from_filial(name) ==
    IF StartsWith(MapChars("lower", name), "mottu ")
    THEN Strip(SubSeq(name, 7, Len(name)))
    ELSE Strip(name)

\* filiais.items()
filiais_items == DictItems(filiais)

\* CITY2CODE as the loop builds it: one <<normalised city, code>> pair per
\* entry of filiais.items() (CITY_ALIASES is empty)
CITY2CODE ==
    Materialize([i \in 1..Len(filiais_items) |->
        <<_norm(JStr(_city_from_filial(filiais_items[i][1]))),
          filiais_items[i][2]>>])

\* regionais_ui: the base regionals plus the synthetic one, all codes sorted
regionais_ui_keys ==
    [i \in 1..(Len(regionais_base) + 1) |->
        IF i <= Len(regionais_base) THEN regionais_base[i][1] ELSE "Luciano"]

\* sorted(...) of a list of codes
SortedCodes(xs) ==
    LET pos == [i \in 1..Len(xs) |->
                   Cardinality({j \in 1..Len(xs) :
                       \/ xs[j] < xs[i]
                       \/ xs[j] = xs[i] /\ j <= i})]
    IN  [p \in 1..Len(xs) |-> xs[CHOOSE i \in 1..Len(xs) : pos[i] = p]]

\* regionais_ui as <<name, codes>> pairs: dict(regionais_base), then
\* "Luciano" with sorted(sum(regionais_base.values(), []))
regionais_ui ==
    LET acc[i \in 0..Len(regionais_base)] ==
            IF i = 0 THEN <<>> ELSE acc[i - 1] \o regionais_base[i][2]
    IN  Append(regionais_base,
               <<"Luciano", SortedCodes(acc[Len(regionais_base)])>>)

\* the inverse map built from regionais_ui, whose last key holds every code
CodeToRegionalOfUi ==
    LET acc[i \in 0..Len(regionais_base)] ==
            IF i = 0 THEN <<>>
            ELSE acc[i - 1] \o
                 [j \in 1..Len(regionais_base[i][2]) |->
                     <<regionais_base[i][2][j], "Luciano">>]
    IN  Materialize(acc[Len(regionais_base)])

\* code_to_regional as the nested loop builds it, from regionais_base only
code_to_regional ==
    LET acc[i \in 0..Len(regionais_base)] ==
            IF i = 0 THEN <<>>
            ELSE acc[i - 1] \o
                 [j \in 1..Len(regionais_base[i][2]) |->
                     <<regionais_base[i][2][j], regionais_base[i][1]>>]
    IN  Materialize(acc[Len(regionais_base)])

\* _normalize: strip, remove accents, casefold (whitespace runs are kept)
_normalize(s) ==
    IF s = None THEN ""
    ELSE MapChars("casefold", MapChars("unaccent", Strip(PyStr(s))))

\* TEAM_MAP: the raw table keyed by the normalised name, blank keys dropped
TEAM_MAP ==
    LET items == DictItems(TEAM_MAP_RAW)
        kept  == SelectSeq(items, LAMBDA kv : Strip(kv[1]) # "")
    IN  Materialize([i \in 1..Len(kept) |->
            <<_normalize(JStr(kept[i][1])), kept[i][2]>>])

\* map_to_team_or_self looking the name up as written
MapToTeamRawKey(responsavel) ==
    LET raw == IF responsavel = None THEN "" ELSE PyStr(responsavel)
    IN  IF DictHas(TEAM_MAP_RAW, raw) /\ Strip(DictGet(TEAM_MAP_RAW, raw)) # ""
        THEN JStr(Strip(DictGet(TEAM_MAP_RAW, raw)))
        ELSE IF Truthy(responsavel) THEN responsavel ELSE JStr(NAO_ATRIBUIDO)

\* map_to_team_or_self; the result is a Python value (str, or the input)
map_to_team_or_self(responsavel) ==
    LET norm == _normalize(responsavel)
    IN  IF DictHas(TEAM_MAP, norm) /\ Strip(DictGet(TEAM_MAP, norm)) # ""
        THEN JStr(Strip(DictGet(TEAM_MAP, norm)))
        ELSE IF Truthy(responsavel) THEN responsavel ELSE JStr(NAO_ATRIBUIDO)

----------------------------------------------------------------------------
(* The pipeline's pure steps *)

\* the fields fetch_conversations keeps of each conversation
keep == {"id", "created_at", "state", "open", "admin_assignee_id", "contacts"}

Slim(batch) == [i \in 1..Len(batch) |-> [f \in keep |-> batch[i][f]]]

\* fetch_admin_map's comprehension: str(id) -> name, entries without id dropped
AdminMapOf(admins) ==
    LET withId == SelectSeq(admins, LAMBDA a : a.id # None)
    IN  [i \in 1..Len(withId) |-> <<PyStr(withId[i].id), withId[i].name>>]

\* the id of the conversation's first contact, or None.  obj.contacts is the
\* list under contacts.contacts, empty when the structure is missing.
FirstContactId(obj) ==
    IF obj.contacts # <<>> THEN obj.contacts[1] ELSE None

\* a contact_map entry made with str(city) where city may be None
ContactInfoOfStr(city) ==
    LET city_norm   == _norm(JStr(PyStr(city)))
        filial_code == IF DictHas(CITY2CODE, city_norm)
                       THEN JNum(DictGet(CITY2CODE, city_norm)) ELSE None
        named       == {i \in 1..Len(filiais_items) :
                            JNum(filiais_items[i][2]) = filial_code}
        filial_name == IF named # {}
                       THEN filiais_items[CHOOSE i \in named :
                                             \A j \in named : i <= j][1]
                       ELSE "Mottu " \o PyStr(city)
        regional    == IF filial_code # None
                          /\ DictHas(code_to_regional, filial_code.val)
                       THEN DictGet(code_to_regional, filial_code.val)
                       ELSE NAO_MAPEADO
    IN  [Cidade       |-> PyStr(city),
         Filial       |-> filial_name,
         FilialCodigo |-> IF filial_code # None THEN filial_code ELSE JStr(""),
         Regional     |-> regional]

\* city -> branch code -> branch name and regional, as one contact_map entry
ContactInfo(city) ==
    LET city_norm   == IF Truthy(city) THEN _norm(city) ELSE ""
        filial_code == IF DictHas(CITY2CODE, city_norm)
                       THEN JNum(DictGet(CITY2CODE, city_norm)) ELSE None
        named       == {i \in 1..Len(filiais_items) :
                            JNum(filiais_items[i][2]) = filial_code}
        filial_name == IF named # {}
                       THEN filiais_items[CHOOSE i \in named :
                                             \A j \in named : i <= j][1]
                       ELSE IF Truthy(city) THEN "Mottu " \o PyStr(city) ELSE ""
        regional    == IF filial_code # None
                          /\ DictHas(code_to_regional, filial_code.val)
                       THEN DictGet(code_to_regional, filial_code.val)
                       ELSE NAO_MAPEADO
    IN  [Cidade       |-> IF Truthy(city) THEN PyStr(city) ELSE "",
         Filial       |-> filial_name,
         FilialCodigo |-> IF filial_code # None THEN filial_code ELSE JStr(""),
         Regional     |-> regional]

\* the text is one or more decimal digits
IsDigits(s) == s # "" /\ \A i \in 1..Len(s) : Has("0123456789", Char(s, i))

\* int(s) of decimal digits
DecVal(s) ==
    LET val[i \in 0..Len(s)] ==
            IF i = 0 THEN 0
            ELSE 10 * val[i - 1] + (IndexOf("0123456789", Char(s, i)) - 1)
    IN  val[Len(s)]

\* float(created_at) succeeds: a number does, and a text that writes one
\* (float strips the blanks around it); None raises TypeError and any other
\* text ValueError
FloatOk(v) ==
    \/ v.kind = "num"
    \/ v.kind = "bool"
    \/ v.kind = "str" /\ IsDigits(Strip(v.val))

\* float(created_at), where FloatOk
FloatOf(v) ==
    CASE v.kind = "num"  -> v.val
      [] v.kind = "bool" -> IF v.val THEN 1 ELSE 0
      [] v.kind = "str"  -> DecVal(Strip(v.val))

\* the responsible: the assignee's name in the admin map, else the placeholder
Responsavel(obj, amap) ==
    LET aid        == obj.admin_assignee_id
        admin_name == IF aid # None /\ DictHas(amap, PyStr(aid))
                      THEN DictGet(amap, PyStr(aid)) ELSE None
    IN  IF Truthy(admin_name) THEN PyStr(admin_name) ELSE NAO_ATRIBUIDO

\* the row loop without the test of `open`
KeptIgnoringOpen(obj, amap) ==
    /\ obj.state = JStr("open")
    /\ FloatOk(obj.created_at)
    /\ Responsavel(obj, amap) \notin EXCLUDE_ADMINS

\* the conversation passes every `continue` of the row loop
Kept(obj, amap) ==
    /\ obj.state = JStr("open")
    /\ obj.open = JBool(TRUE)
    /\ FloatOk(obj.created_at)
    /\ Responsavel(obj, amap) \notin EXCLUDE_ADMINS

Max(a, b) == IF a >= b THEN a ELSE b

\* the age without the clamp: (now_ts - ca) / 60.0
AgeUnclamped(now_ts, ca) == now_ts - ca

\* TMA_individual is held in sixtieths of a minute, so that
\* max(0.0, (now_ts - ca) / 60.0) minutes is the integer max(0, now_ts - ca)
AgeOf(now_ts, ca) == Max(0, now_ts - ca)

RowOf(obj, amap, cmap, now_ts) ==
    LET resp       == Responsavel(obj, amap)
        contact_id == FirstContactId(obj)
        found      == contact_id \in DOMAIN cmap
    IN  [Time           |-> PyStr(map_to_team_or_self(JStr(resp))),
         TMA_individual |-> AgeOf(now_ts, FloatOf(obj.created_at)),
         Responsavel    |-> resp,
         ContactId      |-> IF Truthy(contact_id) THEN PyStr(contact_id) ELSE "",
         Cidade         |-> IF found THEN cmap[contact_id].Cidade ELSE "",
         Filial         |-> IF found THEN cmap[contact_id].Filial ELSE "",
         FilialCodigo   |-> IF found THEN cmap[contact_id].FilialCodigo ELSE JStr(""),
         Regional       |-> IF found THEN cmap[contact_id].Regional ELSE NAO_MAPEADO]

\* step 4 of load_rows_with_progress: one row per kept conversation, in order
BuildRows(convs, amap, cmap, now_ts) ==
    LET kept == SelectSeq(convs, LAMBDA obj : Kept(obj, amap))
    IN  [i \in 1..Len(kept) |-> RowOf(kept[i], amap, cmap, now_ts)]

----------------------------------------------------------------------------
(* Regional filter and aggregation by Time *)

\* sort_values(["TMA"], ascending=False, kind="stable"): a group goes after
\* every group of greater TMA and after every earlier group of equal TMA
SortByTMA(groups) ==
    LET Pos(i) == Cardinality({j \in 1..Len(groups) :
                      \/ groups[j].TMA > groups[i].TMA
                      \/ j <= i /\ groups[j].TMA = groups[i].TMA})
    IN  [p \in 1..Len(groups) |->
            groups[CHOOSE i \in 1..Len(groups) : Pos(i) = p]]

\* sorted(...) of a set of strings
SortedStrings(S) ==
    [p \in 1..Cardinality(S) |->
        CHOOSE s \in S : Cardinality({t \in S : StrLess(t, s)}) = p - 1]

\* the selectbox options
regionais_disponiveis ==
    <<"Todos">>
    \o SortedStrings({regionais_ui_keys[i] : i \in 1..Len(regionais_ui_keys)})
    \o <<NAO_MAPEADO>>

\* a filter by the codes that regionais_ui lists under the selection
FilterRegionalByCodes(rows, sel) ==
    IF sel # "Todos"
    THEN SelectSeq(rows, LAMBDA r :
             \/ r.Regional = sel
             \/ /\ r.FilialCodigo.kind = "num"
                /\ \E i \in 1..Len(regionais_ui) :
                      /\ regionais_ui[i][1] = sel
                      /\ \E j \in 1..Len(regionais_ui[i][2]) :
                            regionais_ui[i][2][j] = r.FilialCodigo.val)
    ELSE rows

\* a filter that takes the unmapped rows out of "Todos"
FilterRegionalMappedOnly(rows, sel) ==
    IF sel # "Todos"
    THEN SelectSeq(rows, LAMBDA r : r.Regional = sel)
    ELSE SelectSeq(rows, LAMBDA r : r.Regional # NAO_MAPEADO)

FilterRegional(rows, sel) ==
    IF sel # "Todos"
    THEN SelectSeq(rows, LAMBDA r : r.Regional = sel)
    ELSE rows

SumSeq(xs) ==
    LET acc[i \in 0..Len(xs)] == IF i = 0 THEN 0 ELSE acc[i - 1] + xs[i]
    IN  acc[Len(xs)]

\* the mean of n ages summing to total sixtieths of a minute, rounded to two
\* decimals (round half to even), in hundredths of a minute
Round2Mean(total, n) ==
    LET num == 100 * total
        den == 60 * n
        q   == num \div den
        r   == num % den
    IN  IF 2 * r < den THEN q
        ELSE IF 2 * r > den THEN q + 1
        ELSE IF q % 2 = 0 THEN q ELSE q + 1

\* groupby("Time", sort=False): the groups in the order of first occurrence
GroupByFirstSeen(rows) ==
    LET idx   == [i \in 1..Len(rows) |-> i]
        first == SelectSeq(idx, LAMBDA i :
                     \A j \in 1..(i - 1) : rows[j].Time # rows[i].Time)
        Of(t) == SelectSeq(rows, LAMBDA r : r.Time = t)
    IN  [g \in 1..Len(first) |->
            [Time |-> rows[first[g]].Time,
             Qtd  |-> Len(Of(rows[first[g]].Time)),
             TMA  |-> Round2Mean(
                          SumSeq([i \in 1..Len(Of(rows[first[g]].Time)) |->
                                     Of(rows[first[g]].Time)[i].TMA_individual]),
                          Len(Of(rows[first[g]].Time)))]]

\* groupby("Time").agg(size, mean).reset_index(): one group per Time, in the
\* sorted order of the keys
GroupByTime(rows) ==
    LET times == SortedStrings({rows[i].Time : i \in 1..Len(rows)})
        Of(t) == SelectSeq(rows, LAMBDA r : r.Time = t)
    IN  [g \in 1..Len(times) |->
            [Time |-> times[g],
             Qtd  |-> Len(Of(times[g])),
             TMA  |-> Round2Mean(
                          SumSeq([i \in 1..Len(Of(times[g])) |->
                                     Of(times[g])[i].TMA_individual]),
                          Len(Of(times[g])))]]

\* the table shown: groups by TMA descending, stable; nothing for no rows
Aggregate(rows) ==
    IF rows = <<>> THEN <<>>
    ELSE SortByTMA(GroupByTime(rows))

----------------------------------------------------------------------------
(* The running program: one browser session re-running the script *)

VARIABLES
    now,                  \* the wall clock, in seconds
    pc,                   \* where the script run stands; "idle" between runs
    session_state,        \* st.session_state: no key, or rows_df and expires_at
    _CONTACT_CITY_CACHE,  \* contact id -> city or None
    run_now,              \* `now` as the run read it (line 458)
    slim,                 \* fetch_conversations: the conversations so far
    starting_after,       \* fetch_conversations: the cursor for the next page
    admin_map,            \* fetch_admin_map's result, <<str(id), name>> pairs
    contact_map,          \* contact id -> city, branch, code and regional
    obj_idx,              \* the contact loop's position in slim
    rows_df,              \* the run's rows_df, None while it is not assigned
    regional_sel,         \* the selectbox value
    agg,                  \* the aggregate table shown
    raised,               \* the run ended with an uncaught exception
    net,                  \* the requests the run has issued, in order
    pages,                \* the search pages the run has received, in order
    looked_up,            \* the contact ids requested since the process began
    arg,                  \* a function called on its own: its argument
    ret                   \* ... and what it returned, None before the call

vars == <<now, pc, session_state, _CONTACT_CITY_CACHE, run_now, slim,
          starting_after, admin_map, contact_map, obj_idx, rows_df,
          regional_sel, agg, raised, net, pages, looked_up, arg, ret>>

\* the variables of a function called on its own
callVars == <<arg, ret>>

\* a rows_df value, so that it can be told from None
JDf(rows) == [kind |-> "df", val |-> rows]

\* dict d with d[key] = value
DictSet(d, key, value) ==
    [x \in DOMAIN d \cup {key} |-> IF x = key THEN value ELSE d[x]]

EmptyDict == [x \in {} |-> None]

----------------------------------------------------------------------------
(* Bounds and the inputs drawn from the server *)

MaxNow == 600

MaxCursor == 1

MaxConvs == 2

Conv(i, ca, aid, cs) ==
    [id |-> JNum(i), created_at |-> ca, state |-> JStr("open"),
     open |-> JBool(TRUE), admin_assignee_id |-> aid, contacts |-> cs,
     title |-> JStr("t")]

\* the conversations the server may return to the running session
ServerConvs ==
    { Conv(1, JNum(0),   JNum(1), <<JStr("c1")>>),
      Conv(2, JNum(240), JNum(2), <<JStr("c2"), JStr("c1")>>),
      Conv(3, JNum(900), JNum(2), <<>>) }

SeqsUpTo(S, n) == UNION {[1..m -> S] : m \in 0..n}

\* the pages the server may send when `have` conversations were sent already
ServerBatches(have) == SeqsUpTo(ServerConvs, MaxConvs - have)

\* the admin lists the server may return
ServerRosters ==
    { << [id |-> JStr("1"), name |-> JStr("Beatriz")],
         [id |-> JStr("2"), name |-> JStr("Zeca")] >>,
      << [id |-> JStr("2"), name |-> JStr("Suporte Mottu")],
         [id |-> JStr("1"), name |-> JStr(" BEATRIZ")] >> }

\* the "next" a page may carry after the cursor c: none, or a later cursor
NextCursors(c) ==
    {None} \cup {JNum(n) : n \in ((IF c = None THEN 0 ELSE c.val) + 1)..MaxCursor}

\* the cities a contact's location may carry
ServerCities == {None, JStr("Curitiba")}

\* the selectbox options the session's user picks among
UserChoices ==
    {sel \in {regionais_disponiveis[i] : i \in 1..Len(regionais_disponiveis)} :
        sel \in {"Todos", "Francisco", "Luciano", NAO_MAPEADO}}

\* how a request can fail: transport error, non-2xx status, malformed body
Failures == {"transport", "status", "body"}

----------------------------------------------------------------------------
(* Actions *)

Init ==
    /\ now = 0
    /\ pc = "idle"
    /\ session_state = EmptyDict
    /\ _CONTACT_CITY_CACHE = EmptyDict
    /\ run_now = 0
    /\ slim = <<>>
    /\ starting_after = None
    /\ admin_map = <<>>
    /\ contact_map = EmptyDict
    /\ obj_idx = 1
    /\ rows_df = None
    /\ regional_sel = "Todos"
    /\ agg = <<>>
    /\ raised = FALSE
    /\ net = <<>>
    /\ pages = <<>>
    /\ looked_up = {}
    /\ arg = None
    /\ ret = None

\* time passes, one validity window at a step
Tick ==
    /\ now + REFRESH_SECS <= MaxNow
    /\ now' = now + REFRESH_SECS
    /\ UNCHANGED <<pc, session_state, _CONTACT_CITY_CACHE, run_now, slim,
                   starting_after, admin_map, contact_map, obj_idx, rows_df,
                   regional_sel, agg, raised, net, pages, looked_up,
                   arg, ret>>

\* the comparison of line 459 the wrong way round
FreshWhenExpired ==
    /\ "rows_df" \in DOMAIN session_state
    /\ "expires_at" \in DOMAIN session_state
    /\ now >= session_state.expires_at

\* the condition of line 459: a result is stored and has not expired
Fresh ==
    /\ "rows_df" \in DOMAIN session_state
    /\ "expires_at" \in DOMAIN session_state
    /\ ~(now >= session_state.expires_at)

\* lines 468-486: the selectbox, the filter and the table
Render(df, sel) ==
    /\ regional_sel' = sel
    /\ agg' = Aggregate(FilterRegional(df, sel))

\* a script run that finds the stored result fresh: the whole run, which
\* starts by executing the module again (line 263 empties the contact cache)
\* and never enters load_rows_with_progress, whose locals it does not have
RunFresh ==
    /\ pc = "idle"
    /\ Fresh
    /\ _CONTACT_CITY_CACHE' = EmptyDict
    /\ run_now' = now
    /\ rows_df' = JDf(session_state["rows_df"])
    /\ \E sel \in UserChoices : Render(session_state["rows_df"], sel)
    /\ raised' = FALSE
    /\ net' = <<>>
    /\ pages' = <<>>
    /\ slim' = <<>>
    /\ starting_after' = None
    /\ admin_map' = <<>>
    /\ contact_map' = EmptyDict
    /\ obj_idx' = 1
    /\ UNCHANGED <<now, pc, session_state, looked_up, arg, ret>>

\* a script run that finds nothing stored, or the stored result expired:
\* it enters load_rows_with_progress and fetch_conversations
RunStale ==
    /\ pc = "idle"
    /\ ~Fresh
    /\ _CONTACT_CITY_CACHE' = EmptyDict
    /\ run_now' = now
    /\ slim' = <<>>
    /\ starting_after' = None
    /\ admin_map' = <<>>
    /\ contact_map' = EmptyDict
    /\ obj_idx' = 1
    /\ rows_df' = None
    /\ regional_sel' = "Todos"
    /\ agg' = <<>>
    /\ raised' = FALSE
    /\ net' = <<>>
    /\ pages' = <<>>
    /\ pc' = "fetch_conversations"
    /\ UNCHANGED <<now, session_state, looked_up,
                   arg, ret>>

\* an exception nobody catches ends the script run
Abort ==
    /\ pc' = "idle"
    /\ raised' = TRUE

\* the search request of one loop iteration
SearchRequest ==
    [kind |-> "search",
     starting_after |-> IF Truthy(starting_after) THEN starting_after ELSE None]

\* a loop iteration that forgets to move the cursor
ReceivePageKeepCursor(batch, next) ==
    /\ pages' = Append(pages, [conversations |-> batch, next |-> next])
    /\ IF batch = <<>>
       THEN /\ pc' = "fetch_admin_map"
            /\ UNCHANGED <<slim, starting_after>>
       ELSE /\ slim' = slim \o Slim(batch)
            /\ UNCHANGED starting_after
            /\ pc' = IF ~Truthy(next) THEN "fetch_admin_map"
                     ELSE "fetch_conversations"
    /\ UNCHANGED raised

\* one iteration of fetch_conversations' loop, the page being (batch, next)
ReceivePage(batch, next) ==
    /\ pages' = Append(pages, [conversations |-> batch, next |-> next])
    /\ IF batch = <<>>
       THEN /\ pc' = "fetch_admin_map"
            /\ UNCHANGED <<slim, starting_after>>
       ELSE /\ slim' = slim \o Slim(batch)
            /\ starting_after' = next
            /\ pc' = IF ~Truthy(next) THEN "fetch_admin_map"
                     ELSE "fetch_conversations"
    /\ UNCHANGED raised

FetchPage ==
    /\ pc = "fetch_conversations"
    /\ net' = Append(net, SearchRequest)
    /\ \/ \E batch \in ServerBatches(Len(slim)),
             next \in NextCursors(starting_after) :
              ReceivePage(batch, next)
       \/ \E f \in Failures :
              /\ Abort
              /\ UNCHANGED <<slim, starting_after, pages>>
    /\ UNCHANGED <<now, session_state, _CONTACT_CITY_CACHE, run_now, admin_map,
                   contact_map, obj_idx, rows_df, regional_sel, agg, looked_up,
                   arg, ret>>

FetchAdmins ==
    /\ pc = "fetch_admin_map"
    /\ net' = Append(net, [kind |-> "admins"])
    /\ \/ \E admins \in ServerRosters :
              /\ admin_map' = AdminMapOf(admins)
              /\ pc' = "contacts"
              /\ UNCHANGED raised
       \/ \E f \in Failures :
              /\ Abort
              /\ UNCHANGED admin_map
    /\ UNCHANGED <<now, session_state, _CONTACT_CITY_CACHE, run_now, slim,
                   starting_after, contact_map, obj_idx, rows_df, regional_sel,
                   agg, pages, looked_up,
                   arg, ret>>

\* fetch_contact_city without the cache test of line 267
CityResultNoMemo(cache, contact_id, reply) ==
    IF ~Truthy(contact_id) THEN [city |-> None, cache |-> cache, sent |-> FALSE]
    ELSE LET city == IF reply.ok THEN reply.city ELSE None
         IN  [city  |-> city,
              cache |-> DictSet(cache, contact_id, city),
              sent  |-> TRUE]

\* fetch_contact_city(contact_id), the lookup's outcome being reply: the
\* city and the cache afterwards, and whether a request went out
CityResult(cache, contact_id, reply) ==
    IF ~Truthy(contact_id) THEN [city |-> None, cache |-> cache, sent |-> FALSE]
    ELSE IF contact_id \in DOMAIN cache
    THEN [city |-> cache[contact_id], cache |-> cache, sent |-> FALSE]
    ELSE LET city == IF reply.ok THEN reply.city ELSE None
         IN  [city  |-> city,
              cache |-> DictSet(cache, contact_id, city),
              sent  |-> TRUE]

\* one iteration of the contact loop (lines 365-382)
ContactStep ==
    /\ pc = "contacts"
    /\ obj_idx <= Len(slim)
    /\ \E reply \in {[ok |-> TRUE, city |-> c, error |-> ""] : c \in ServerCities}
                    \cup {[ok |-> FALSE, city |-> None, error |-> f] : f \in Failures} :
          LET contact_id == FirstContactId(slim[obj_idx])
              res == CityResult(_CONTACT_CITY_CACHE, contact_id, reply)
          IN  /\ _CONTACT_CITY_CACHE' = res.cache
              /\ net' = IF res.sent
                        THEN Append(net, [kind |-> "contact", id |-> contact_id,
                                          ok |-> reply.ok])
                        ELSE net
              /\ looked_up' = IF res.sent THEN looked_up \cup {contact_id}
                               ELSE looked_up
              /\ contact_map' = DictSet(contact_map, contact_id,
                                        ContactInfo(res.city))
    /\ obj_idx' = obj_idx + 1
    /\ UNCHANGED <<now, pc, session_state, run_now, slim, starting_after,
                   admin_map, rows_df, regional_sel, agg, raised, pages, arg, ret>>

\* a run that builds and stores the rows before the contact loop is through
BuildAndShowEarly ==
    /\ pc = "contacts"
    /\ LET rows == BuildRows(slim, admin_map, contact_map, now)
       IN  /\ session_state' = [rows_df |-> rows,
                                expires_at |-> run_now + REFRESH_SECS]
           /\ rows_df' = JDf(rows)
           /\ \E sel \in UserChoices : Render(rows, sel)
    /\ pc' = "idle"
    /\ UNCHANGED <<now, _CONTACT_CITY_CACHE, run_now, slim, starting_after,
                   admin_map, contact_map, obj_idx, raised, net, pages, looked_up,
                   arg, ret>>

\* the rest of the run: the rows are built (lines 385-424), stored with the
\* new expiry (lines 460-462), filtered and aggregated (lines 468-486)
BuildAndShow ==
    /\ pc = "contacts"
    /\ obj_idx > Len(slim)
    /\ LET rows == BuildRows(slim, admin_map, contact_map, now)
       IN  /\ session_state' = [rows_df |-> rows,
                                expires_at |-> run_now + REFRESH_SECS]
           /\ rows_df' = JDf(rows)
           /\ \E sel \in UserChoices : Render(rows, sel)
    /\ pc' = "idle"
    /\ UNCHANGED <<now, _CONTACT_CITY_CACHE, run_now, slim, starting_after,
                   admin_map, contact_map, obj_idx, raised, net, pages, looked_up,
                   arg, ret>>

Next ==
    \/ Tick
    \/ RunFresh
    \/ RunStale
    \/ FetchPage
    \/ FetchAdmins
    \/ ContactStep
    \/ BuildAndShow

Spec == Init /\ [][Next]_vars

\* fetch_conversations keeps executing: once the loop is at a request, the
\* request is sent and answered (requests.get returns or raises, the
\* timeout of line 248 bounding the wait)
FairSpec == Spec /\ WF_vars(FetchPage)

----------------------------------------------------------------------------
(* The row builder on its own: steps 3 and 4 of load_rows_with_progress
   applied to any fetched conversations, admin map and contact cities *)

MaxRowConvs == 2

\* the clock of the row builder's run
RowNow == REFRESH_SECS

WConv(st, op, ca, aid, cs) ==
    [id |-> JNum(1), created_at |-> ca, state |-> st, open |-> op,
     admin_assignee_id |-> aid, contacts |-> cs]

\* fetched conversations of every kind the row loop tells apart
RowConvs ==
    { WConv(JStr("open"),    JBool(TRUE),  JNum(0),       JNum(1), <<JStr("c1")>>),
      WConv(JStr("open"),    JBool(TRUE),  JNum(900),     JNum(2), <<JStr("c2"), JStr("c1")>>),
      WConv(JStr("open"),    JBool(TRUE),  JNum(300),     JNum(2), <<>>),
      WConv(JStr("open"),    JBool(TRUE),  JNum(RowNow),  JNum(2), <<JStr("c1")>>),
      WConv(JStr("open"),    JBool(TRUE),  JStr(" 240 "), JNum(1), <<JStr("c2")>>),
      WConv(JStr("closed"),  JBool(TRUE),  JNum(10),      JNum(1), <<JStr("c1")>>),
      WConv(JStr("snoozed"), JBool(FALSE), JNum(20),      JNum(1), <<JStr("c1")>>),
      WConv(JStr("open"),    JBool(FALSE), JNum(30),      JNum(1), <<JStr("c1")>>),
      WConv(JStr("open"),    None,         JNum(40),      JNum(1), <<JStr("c1")>>),
      WConv(JStr("open"),    JBool(TRUE),  None,          JNum(1), <<JStr("c1")>>),
      WConv(JStr("open"),    JBool(TRUE),  JStr("abc"),   JNum(1), <<JStr("c1")>>),
      WConv(JStr("open"),    JBool(TRUE),  JNum(50),      None,    <<JStr("c1")>>),
      WConv(JStr("open"),    JBool(TRUE),  JNum(60),      JNum(9), <<JStr("c1")>>),
      WConv(JStr("open"),    JBool(TRUE),  JNum(70),      JNum(3), <<JStr("c1")>>),
      WConv(JStr("open"),    JBool(TRUE),  JStr("900"),   JNum(1), <<>>) }

\* admin lists: plain; an excluded, an empty and a placeholder name; an
\* admin without id and an id listed twice
RowRosters ==
    { << [id |-> JStr("1"), name |-> JStr("Thaís")],
         [id |-> JStr("2"), name |-> JStr("Zeca")],
         [id |-> JStr("3"), name |-> JStr("Suporte Mottu")] >>,
      << [id |-> JStr("1"), name |-> JStr("")],
         [id |-> JStr("2"), name |-> JStr("Não atribuído")],
         [id |-> JStr("3"), name |-> JStr("time de acidentes")] >>,
      << [id |-> None,      name |-> JStr("Ana")],
         [id |-> JStr("2"), name |-> JStr("Suporte Mottu")],
         [id |-> JStr("2"), name |-> JStr("THAÍS")] >> }

\* what a contact lookup may have left in the cache: no city, a city with a
\* branch (as written by the server), a city without one
RowCities == {None, JStr("Curitiba"), JStr(" são  LUÍS "), JStr("Atlantis")}

\* the contact loop (lines 364-382) given the cities the lookups gave
ContactMapOf(convs, cache) ==
    [cid \in {FirstContactId(convs[i]) : i \in 1..Len(convs)} |->
        ContactInfo(IF Truthy(cid) THEN cache[cid] ELSE None)]

\* the variables that only the running session uses, at rest
Quiet ==
    /\ session_state = EmptyDict
    /\ run_now = 0
    /\ starting_after = None
    /\ obj_idx = 1
    /\ raised = FALSE
    /\ net = <<>>
    /\ pages = <<>>
    /\ looked_up = {}

InitRows ==
    /\ Quiet
    /\ now = RowNow
    /\ pc = "fetched"
    /\ slim = <<>>
    /\ admin_map = <<>>
    /\ _CONTACT_CITY_CACHE = EmptyDict
    /\ contact_map = EmptyDict
    /\ rows_df = None
    /\ regional_sel = "Todos"
    /\ agg = <<>>
    /\ arg = None
    /\ ret = None

\* one more conversation in what fetch_conversations returned
DrawConv ==
    /\ pc = "fetched"
    /\ Len(slim) < MaxRowConvs
    /\ \E c \in RowConvs : slim' = slim \o Slim(<<c>>)
    /\ UNCHANGED <<now, pc, session_state, _CONTACT_CITY_CACHE, run_now,
                   starting_after, admin_map, contact_map, obj_idx, rows_df,
                   regional_sel, agg, raised, net, pages, looked_up, arg, ret>>

\* steps 2 to 4 of load_rows_with_progress, the server listing `admins`
\* and the lookups giving `cities`
LoadRows ==
    /\ pc = "fetched"
    /\ \E admins \in RowRosters,
          cities \in [{FirstContactId(slim[i]) : i \in 1..Len(slim)} \ {None}
                        -> RowCities] :
          /\ admin_map' = AdminMapOf(admins)
          /\ _CONTACT_CITY_CACHE' = cities
          /\ contact_map' = ContactMapOf(slim, cities)
          /\ rows_df' = JDf(BuildRows(slim, AdminMapOf(admins),
                                      ContactMapOf(slim, cities), now))
    /\ pc' = "loaded"
    /\ UNCHANGED <<now, session_state, run_now, slim, starting_after,
                   obj_idx, regional_sel, agg, raised, net, pages,
                   looked_up, arg, ret>>

NextRows ==
    \/ DrawConv
    \/ LoadRows

SpecRows == InitRows /\ [][NextRows]_vars

----------------------------------------------------------------------------
(* The regional filter and the aggregation on their own: lines 468-486
   applied to any rows the row builder can produce *)

MaxAggRows == 4

AggRoster ==
    << [id |-> JStr("1"), name |-> JStr("Thaís")],
       [id |-> JStr("2"), name |-> JStr("Zeca")],
       [id |-> JStr("3"), name |-> JStr("Ana")] >>

AggConvs ==
    { WConv(JStr("open"), JBool(TRUE), JNum(500), JNum(2), <<JStr("c1")>>),
      WConv(JStr("open"), JBool(TRUE), JNum(499), JNum(2), <<JStr("c1")>>),
      WConv(JStr("open"), JBool(TRUE), JNum(500), JNum(3), <<JStr("c1")>>),
      WConv(JStr("open"), JBool(TRUE), JNum(500), JNum(3), <<>>),
      WConv(JStr("open"), JBool(TRUE), JNum(500), JNum(1), <<JStr("c1")>>),
      WConv(JStr("open"), JBool(TRUE), JNum(0),   JNum(1), <<>>) }

\* rows the row builder produces, one for each conversation of AggConvs
AggRows ==
    { RowOf(c, AdminMapOf(AggRoster),
            ContactMapOf(<<c>>, [cid \in {JStr("c1")} |-> JStr("Curitiba")]),
            RowNow) : c \in AggConvs }

InitAgg ==
    /\ Quiet
    /\ now = RowNow
    /\ pc = "loaded"
    /\ slim = <<>>
    /\ admin_map = <<>>
    /\ _CONTACT_CITY_CACHE = EmptyDict
    /\ contact_map = EmptyDict
    /\ rows_df = JDf(<<>>)
    /\ regional_sel = "Todos"
    /\ agg = <<>>
    /\ arg = None
    /\ ret = None

\* one more row in rows_df
DrawRow ==
    /\ pc = "loaded"
    /\ Len(rows_df.val) < MaxAggRows
    /\ \E r \in AggRows : rows_df' = JDf(Append(rows_df.val, r))
    /\ UNCHANGED <<now, pc, session_state, _CONTACT_CITY_CACHE, run_now, slim,
                   starting_after, admin_map, contact_map, obj_idx,
                   regional_sel, agg, raised, net, pages, looked_up, arg, ret>>

\* lines 468-486 with any option of the selectbox
Show ==
    /\ pc = "loaded"
    /\ \E i \in 1..Len(regionais_disponiveis) :
          Render(rows_df.val, regionais_disponiveis[i])
    /\ pc' = "shown"
    /\ UNCHANGED <<now, session_state, _CONTACT_CITY_CACHE, run_now, slim,
                   starting_after, admin_map, contact_map, obj_idx, rows_df,
                   raised, net, pages, looked_up, arg, ret>>

NextAgg ==
    \/ DrawRow
    \/ Show

SpecAgg == InitAgg /\ [][NextAgg]_vars

----------------------------------------------------------------------------
(* map_to_team_or_self on its own *)

\* names: every key of the raw table as written, in upper case, without
\* accents and padded with blanks; names outside the table; no name
TeamInputs ==
    {None, JStr(""), JStr("  "), JStr("Zeca"), JStr(" Zeca "),
     JStr(NAO_ATRIBUIDO), JStr("Suporte Mottu"), JStr("Thaís Silva")}
    \cup UNION { { JStr(TEAM_MAP_RAW[i][1]),
                   JStr(MapChars("upper", TEAM_MAP_RAW[i][1])),
                   JStr(MapChars("unaccent", TEAM_MAP_RAW[i][1])),
                   JStr("  " \o TEAM_MAP_RAW[i][1] \o "\t") }
                 : i \in 1..Len(TEAM_MAP_RAW) }

InitTeam ==
    /\ Quiet
    /\ now = 0
    /\ pc = "call"
    /\ slim = <<>>
    /\ admin_map = <<>>
    /\ _CONTACT_CITY_CACHE = EmptyDict
    /\ contact_map = EmptyDict
    /\ rows_df = None
    /\ regional_sel = "Todos"
    /\ agg = <<>>
    /\ arg = None
    /\ ret = None

\* map_to_team_or_self(responsavel), for any name
CallMapToTeam ==
    /\ pc = "call"
    /\ \E responsavel \in TeamInputs :
          /\ arg' = responsavel
          /\ ret' = map_to_team_or_self(responsavel)
    /\ pc' = "returned"
    /\ UNCHANGED <<now, session_state, _CONTACT_CITY_CACHE, run_now, slim,
                   starting_after, admin_map, contact_map, obj_idx, rows_df,
                   regional_sel, agg, raised, net, pages, looked_up>>

NextTeam == CallMapToTeam

SpecTeam == InitTeam /\ [][NextTeam]_vars

----------------------------------------------------------------------------
(* Properties of the running session *)

\* a result and an expiry are stored and the clock is strictly before the
\* stored expiry
StoredFresh ==
    /\ DOMAIN session_state = {"rows_df", "expires_at"}
    /\ now < session_state.expires_at

\* C1. Refresh scheduler, Fresh state: every script run made while a result
\* and an expiry are stored and the clock is strictly before the stored
\* expiry uses the stored result unchanged (it is the run's rows_df and the
\* table shown is computed from it), leaves the stored result and expiry
\* unchanged, and issues no network request: no conversation search, no
\* admin list, no contact lookup.
C1_FreshRunUsesStored ==
    [][ (pc = "idle" /\ StoredFresh /\ now' = now) =>
            /\ pc' = "idle"
            /\ ~raised'
            /\ rows_df' = JDf(session_state.rows_df)
            /\ agg' = Aggregate(FilterRegional(session_state.rows_df,
                                               regional_sel'))
            /\ session_state' = session_state
            /\ net' = <<>>
            /\ looked_up' = looked_up ]_vars

\* a run served from a stored, non-empty result that has not expired
C1_Witness ==
    /\ pc = "idle"
    /\ StoredFresh
    /\ net = <<>>
    /\ rows_df = JDf(session_state.rows_df)
    /\ Len(session_state.rows_df) > 0
    /\ agg # <<>>

\* C2. Refresh scheduler, failed refresh: when a run after expiry enters the
\* pipeline and the conversation search or the admin list fails, the stored
\* result is not discarded, the run returns that previous result for
\* continued display, and the failure is reported as an error.
C2_FailedRefreshServesPrevious ==
    [][ (/\ pc \in {"fetch_conversations", "fetch_admin_map"}
         /\ pc' = "idle"
         /\ "rows_df" \in DOMAIN session_state) =>
            /\ session_state' = session_state
            /\ rows_df' = JDf(session_state.rows_df)
            /\ raised' ]_vars

\* the step sends a contact lookup
LookupSent ==
    /\ Len(net') = Len(net) + 1
    /\ net'[Len(net')].kind = "contact"

\* the contact lookups the run has sent
Lookups == SelectSeq(net, LAMBDA m : m.kind = "contact")

\* over the steps of one script run no cache entry changes or goes, a lookup
\* is sent only for an id without entry, and an id with an entry is served
\* from it without a request
MemoStep ==
    /\ \A id \in DOMAIN _CONTACT_CITY_CACHE :
          /\ id \in DOMAIN _CONTACT_CITY_CACHE'
          /\ _CONTACT_CITY_CACHE'[id] = _CONTACT_CITY_CACHE[id]
    /\ LookupSent =>
          /\ net'[Len(net')].id \notin DOMAIN _CONTACT_CITY_CACHE
          /\ Truthy(net'[Len(net')].id)
    /\ (obj_idx' = obj_idx + 1
        /\ FirstContactId(slim[obj_idx]) \in DOMAIN _CONTACT_CITY_CACHE) =>
          /\ net' = net
          /\ contact_map'[FirstContactId(slim[obj_idx])].Cidade
               = LET city == _CONTACT_CITY_CACHE[FirstContactId(slim[obj_idx])]
                 IN  IF Truthy(city) THEN city.val ELSE ""

\* C3 as amended. Contact cache memoization within one execution of the
\* script: each non-empty contact id causes at most one network lookup;
\* once an id has a cache entry (the lookup succeeded, or failed and was
\* stored as unknown) every later call for that id in the same execution
\* returns the stored value and issues no request, and no entry is changed
\* or removed while the execution lasts.  The cache does not outlive the
\* execution: every script run starts with an empty cache.
C3_MemoWithinOneRun ==
    /\ [](\A i, j \in 1..Len(Lookups) : Lookups[i].id = Lookups[j].id => i = j)
    /\ [][ (pc # "idle" => MemoStep)
           /\ (pc = "idle" /\ now' = now => _CONTACT_CITY_CACHE' = EmptyDict)
         ]_vars

\* two conversations of one contact have been through the contact loop and
\* one lookup was sent
C3_Witness ==
    /\ pc = "contacts"
    /\ obj_idx = 3
    /\ Truthy(FirstContactId(slim[1]))
    /\ FirstContactId(slim[1]) = FirstContactId(slim[2])
    /\ Len(Lookups) = 1

\* C3 as stated. Over any sequence of fetch_contact_city calls each
\* non-empty contact id causes at most one network lookup, an id that has a
\* cache entry is served from it without a request, and no cache entry is
\* ever changed or removed.
C3_MemoForEver ==
    [][ /\ \A id \in DOMAIN _CONTACT_CITY_CACHE :
              /\ id \in DOMAIN _CONTACT_CITY_CACHE'
              /\ _CONTACT_CITY_CACHE'[id] = _CONTACT_CITY_CACHE[id]
        /\ LookupSent =>
              /\ net'[Len(net')].id \notin looked_up
              /\ net'[Len(net')].id \notin DOMAIN _CONTACT_CITY_CACHE ]_vars

\* the lookup of contact id failed in this run
LookupFailed(id) ==
    \E i \in 1..Len(Lookups) : Lookups[i].id = id /\ ~Lookups[i].ok

\* the conversation passes the row loop's tests
Qualifies(obj) ==
    LET names == {admin_map[i][2] : i \in {j \in 1..Len(admin_map) :
                      obj.admin_assignee_id # None
                      /\ admin_map[j][1] = PyStr(obj.admin_assignee_id)}}
    IN  /\ obj.state = JStr("open")
        /\ obj.open = JBool(TRUE)
        /\ obj.created_at.kind \in {"num", "str"}
        /\ names # {}
        /\ \A n \in names : n.val \notin EXCLUDE_ADMINS \cup {""}

\* a run that went through the whole pipeline has ended
RunDone == pc = "idle" /\ ~raised /\ net # <<>>

\* C4. Per-item degradation: a failure (transport error, non-2xx status,
\* malformed body) of a single contact lookup never aborts the refresh
\* cycle: the step of the failed lookup leaves the run in the contact loop,
\* one conversation further and without exception, the loop never passes the
\* end of the list by more than the one position at which the rows are
\* built, and a run ends with an exception only in the conversation search
\* or the admin list.  The conversation owning the failed contact still
\* yields its row, with empty city and branch and the unmapped regional
\* sentinel, and the rows of the other conversations carry the city their
\* own lookup returned.
C4_LookupFailureDegrades ==
    /\ [](raised => net # <<>> /\ net[Len(net)].kind \in {"search", "admins"})
    /\ [](pc = "contacts" => obj_idx \in 1..(Len(slim) + 1))
    /\ [][ (LookupSent /\ ~net'[Len(net')].ok) =>
              /\ pc' = "contacts"
              /\ ~raised'
              /\ obj_idx' = obj_idx + 1
              /\ _CONTACT_CITY_CACHE'[net'[Len(net')].id] = None ]_vars
    /\ [](RunDone =>
            LET owners == SelectSeq(slim, Qualifies)
                rows   == rows_df.val
            IN  /\ rows_df = JDf(session_state.rows_df)
                /\ Len(rows) = Len(owners)
                /\ \A k \in 1..Len(owners) :
                      LET id == FirstContactId(owners[k])
                      IN  IF ~Truthy(id) \/ LookupFailed(id)
                          THEN /\ rows[k].Cidade = ""
                               /\ rows[k].Filial = ""
                               /\ rows[k].Regional = NAO_MAPEADO
                          ELSE /\ rows[k].ContactId = id.val
                               /\ rows[k].Cidade =
                                     IF Truthy(_CONTACT_CITY_CACHE[id])
                                     THEN _CONTACT_CITY_CACHE[id].val ELSE ""
                               /\ rows[k].Cidade = "Curitiba" =>
                                     /\ rows[k].Regional # NAO_MAPEADO
                                     /\ rows[k].Filial # "")

\* a completed run in which one contact's lookup failed and its conversation
\* has its row, next to a row whose contact resolved to a city
C4_Witness ==
    /\ RunDone
    /\ \E k, l \in 1..Len(rows_df.val) :
          /\ LookupFailed(JStr(rows_df.val[k].ContactId))
          /\ rows_df.val[k].Regional = NAO_MAPEADO
          /\ rows_df.val[l].Cidade = "Curitiba"

\* the search requests the run has sent
Searches == SelectSeq(net, LAMBDA m : m.kind = "search")

\* the page lets the loop go on: it has items and a continuation cursor
Continues(page) == page.conversations # <<>> /\ Truthy(page.next)

\* fetch_conversations has returned in this run
Returned ==
    \/ pc = "fetch_admin_map"
    \/ \E i \in 1..Len(net) : net[i].kind = "admins"

\* the items of the pages received, in page order
Flat ==
    LET acc[i \in 0..Len(pages)] ==
            IF i = 0 THEN <<>> ELSE acc[i - 1] \o pages[i].conversations
    IN  acc[Len(pages)]

\* C5. Pagination of fetch_conversations: the loop stops exactly when a page
\* returns no items or carries no continuation cursor (every page before the
\* last let the loop go on, and the page it returned on did not); every
\* request after the first carries the cursor of the preceding page and the
\* first carries none; the list built is the concatenation of the pages
\* received, in page order and with each page's item order, each item cut
\* down to the fields kept; and the loop terminates, the server sending
\* sooner or later an empty page or no cursor.
C5_Pagination ==
    /\ [](/\ \A i \in 1..(Len(pages) - 1) : Continues(pages[i])
          /\ Returned => pages # <<>> /\ ~Continues(pages[Len(pages)])
          /\ ~Returned => \A i \in 1..Len(pages) : Continues(pages[i])
          /\ Len(Searches) \in {Len(pages), Len(pages) + 1}
          /\ \A i \in 1..Len(Searches) :
                Searches[i].starting_after =
                    IF i = 1 THEN None ELSE pages[i - 1].next
          /\ Len(slim) = Len(Flat)
          /\ \A i \in 1..Len(slim) :
                /\ DOMAIN slim[i] = keep
                /\ \A f \in keep : slim[i][f] = Flat[i][f])
    /\ (pc = "fetch_conversations" ~> pc # "fetch_conversations")

\* the loop has returned on an empty second page, after a first page that
\* carried a conversation and a cursor
C5_Witness ==
    /\ pc = "fetch_admin_map"
    /\ Len(pages) = 2
    /\ pages[2].conversations = <<>>
    /\ Len(slim) = 1
    /\ Len(Searches) = 2
    /\ Searches[2].starting_after = JNum(1)

----------------------------------------------------------------------------
(* Properties of the row builder *)

\* the name the admin map gives the conversation's assignee, or the
\* placeholder when the assignee is null, unknown or has no name
ResolvedName(obj) ==
    LET aid  == obj.admin_assignee_id
        hits == {j \in 1..Len(admin_map) :
                    aid # None /\ admin_map[j][1] = PyStr(aid)}
        name == admin_map[CHOOSE j \in hits : \A h \in hits : h <= j][2]
    IN  IF hits = {} THEN NAO_ATRIBUIDO
        ELSE IF name \in {None, JStr("")} THEN NAO_ATRIBUIDO
        ELSE name.val

\* created_at is a number, or a text that writes one
NumericCreatedAt(obj) ==
    \/ obj.created_at.kind = "num"
    \/ obj.created_at.kind = "str" /\ IsDigits(Strip(obj.created_at.val))

\* the conversations the claim gives a row
Wanted(obj) ==
    /\ obj.state = JStr("open")
    /\ obj.open = JBool(TRUE)
    /\ NumericCreatedAt(obj)
    /\ ResolvedName(obj) \notin EXCLUDE_ADMINS

\* C6. Row builder skip rules: for every list of fetched conversations the
\* output has exactly one row for each conversation with state "open",
\* open = true, a numeric created_at and a resolved responsible name outside
\* the exclusion set, in input order (the k-th row carries the responsible,
\* the first contact and the age of the k-th such conversation), and no row
\* for any other conversation; a conversation whose assignee is null,
\* unknown to the admin map or named in the exclusion set never appears.
C6_SkipRules ==
    pc = "loaded" =>
        LET want == SelectSeq(slim, Wanted)
            rows == rows_df.val
        IN  /\ Len(rows) = Len(want)
            /\ \A k \in 1..Len(want) :
                  /\ rows[k].Responsavel = ResolvedName(want[k])
                  /\ rows[k].ContactId =
                        IF want[k].contacts = <<>> THEN ""
                        ELSE want[k].contacts[1].val
                  /\ rows[k].TMA_individual =
                        LET ca == IF want[k].created_at.kind = "num"
                                  THEN want[k].created_at.val
                                  ELSE DecVal(Strip(want[k].created_at.val))
                        IN  IF ca > now THEN 0 ELSE now - ca
            /\ \A k \in 1..Len(rows) :
                  rows[k].Responsavel \notin EXCLUDE_ADMINS
            /\ \A k \in 1..Len(want) :
                  /\ want[k].admin_assignee_id # None
                  /\ \E j \in 1..Len(admin_map) :
                        admin_map[j][1] = PyStr(want[k].admin_assignee_id)

\* two open conversations were fetched, the first assigned to an excluded
\* admin and the second to a real one: one row, the second's
C6_Witness ==
    /\ pc = "loaded"
    /\ Len(slim) = 2
    /\ slim[1].state = JStr("open") /\ slim[1].open = JBool(TRUE)
    /\ ResolvedName(slim[1]) = "Suporte Mottu"
    /\ Wanted(slim[2])
    /\ Len(rows_df.val) = 1
    /\ rows_df.val[1].Responsavel = ResolvedName(slim[2])

\* the base regionals whose list holds the code
ListsOf(code) ==
    {i \in 1..Len(regionais_base) :
        \E j \in 1..Len(regionais_base[i][2]) : regionais_base[i][2][j] = code}

\* C9. Regional resolution: for every row, if its contact resolves to a
\* branch code that is in exactly one base regional list the row's regional
\* is that regional; if the code is in no list, the city maps to no code or
\* the conversation has no contact, the regional is the unmapped sentinel;
\* so every row's regional is a base regional name or the sentinel.
C9_RegionalResolution ==
    pc = "loaded" =>
        LET want == SelectSeq(slim, Wanted)
            rows == rows_df.val
        IN  \A k \in 1..Len(rows) :
               LET id    == FirstContactId(want[k])
                   city  == IF Truthy(id) THEN _CONTACT_CITY_CACHE[id] ELSE None
                   key   == IF Truthy(city) THEN _norm(city) ELSE ""
                   known == Truthy(id) /\ DictHas(CITY2CODE, key)
                   lists == IF known THEN ListsOf(DictGet(CITY2CODE, key)) ELSE {}
               IN  /\ Cardinality(lists) = 1 =>
                         \A i \in lists : rows[k].Regional = regionais_base[i][1]
                   /\ lists = {} => rows[k].Regional = NAO_MAPEADO
                   /\ rows[k].Regional \in
                         {regionais_base[i][1] : i \in 1..Len(regionais_base)}
                         \cup {NAO_MAPEADO}

\* a row whose city, as the server wrote it, resolves to a regional, and a
\* row whose city has no branch
C9_Witness ==
    /\ pc = "loaded"
    /\ \E k, l \in 1..Len(rows_df.val) :
          /\ rows_df.val[k].Cidade = " são  LUÍS "
          /\ rows_df.val[k].FilialCodigo = JNum(21)
          /\ rows_df.val[k].Regional = "Francisco"
          /\ rows_df.val[l].Cidade = "Atlantis"
          /\ rows_df.val[l].Regional = NAO_MAPEADO

\* created_at as the number float() makes of it
CreatedAt(obj) ==
    IF obj.created_at.kind = "num" THEN obj.created_at.val
    ELSE DecVal(Strip(obj.created_at.val))

\* C11. Age clamp: for every row produced, age_minutes, which the rows hold
\* in sixtieths of a minute, equals (now - created_at)/60 when created_at is
\* not after now (in sixtieths: now - created_at) and equals 0 when
\* created_at is after now; age_minutes is never negative in any row.
C11_AgeClamp ==
    pc = "loaded" =>
        LET want == SelectSeq(slim, Wanted)
            rows == rows_df.val
        IN  /\ Len(rows) = Len(want)
            /\ \A k \in 1..Len(rows) :
                  /\ CreatedAt(want[k]) <= now =>
                        rows[k].TMA_individual = now - CreatedAt(want[k])
                  /\ CreatedAt(want[k]) > now => rows[k].TMA_individual = 0
                  /\ rows[k].TMA_individual >= 0

\* a conversation created 300 seconds after the clock and one created 600
\* seconds before it: ages 0 and 10 minutes
C11_Witness ==
    /\ pc = "loaded"
    /\ Len(slim) = 2
    /\ slim[1].created_at = JNum(900) /\ slim[2].created_at = JNum(0)
    /\ now = 600
    /\ Len(rows_df.val) = 2
    /\ rows_df.val[1].TMA_individual = 0
    /\ rows_df.val[2].TMA_individual = 600

----------------------------------------------------------------------------
(* Properties of the filter and the aggregation *)

\* the rows the regional filter lets through
ShownRows ==
    SelectSeq(rows_df.val,
              LAMBDA r : regional_sel = "Todos" \/ r.Regional = regional_sel)

\* where the team first occurs in the rows shown
FirstSeen(team) ==
    CHOOSE i \in 1..Len(ShownRows) :
        /\ ShownRows[i].Time = team
        /\ \A j \in 1..(i - 1) : ShownRows[j].Time # team

\* C7 as amended. Aggregator order: the groups are in descending order of
\* mean age rounded to 2 decimals, and whenever two team groups have the same
\* rounded mean age they are in ascending order of team name (the order of
\* the sorted group keys, which the stable sort keeps), whatever the order
\* in which the two teams first occur in the input rows.
C7_TiesByTeamName ==
    pc = "shown" =>
        \A i, j \in 1..Len(agg) :
            i < j =>
                /\ agg[i].TMA >= agg[j].TMA
                /\ agg[i].TMA = agg[j].TMA => StrLess(agg[i].Time, agg[j].Time)

\* two teams tie after rounding (means 1.6722 and 1.6667 minutes, both 1.67)
\* and the team first in the table occurs second in the rows
C7_Witness ==
    /\ pc = "shown"
    /\ \E i, j \in 1..Len(agg) :
          /\ i < j
          /\ agg[i].TMA = agg[j].TMA
          /\ agg[i].Qtd = 1 /\ agg[j].Qtd = 3
          /\ FirstSeen(agg[j].Time) < FirstSeen(agg[i].Time)

\* C7 as stated. Aggregator tie-break: whenever two team groups have the
\* same mean age after rounding to 2 decimals, their relative order in the
\* aggregate output is the order in which the two teams first occur in the
\* input rows.
C7_TiesByFirstOccurrence ==
    pc = "shown" =>
        \A i, j \in 1..Len(agg) :
            (i < j /\ agg[i].TMA = agg[j].TMA) =>
                FirstSeen(agg[i].Time) < FirstSeen(agg[j].Time)

\* C8. Aggregation preserves rows: for every row set and every regional
\* filter value the aggregate has exactly one group per distinct team of the
\* filtered rows, each group's count is the number of filtered rows of that
\* team, and the counts sum to the number of filtered rows; rows with the
\* unmapped regional sentinel or an unmapped team name are counted like any
\* other.
C8_AggregationPreservesRows ==
    pc = "shown" =>
        LET teams == {ShownRows[i].Time : i \in 1..Len(ShownRows)}
        IN  /\ Len(agg) = Cardinality(teams)
            /\ \A t \in teams :
                  \E g \in 1..Len(agg) :
                     /\ agg[g].Time = t
                     /\ agg[g].Qtd =
                           Cardinality({i \in 1..Len(ShownRows) :
                                           ShownRows[i].Time = t})
                     /\ \A h \in 1..Len(agg) : agg[h].Time = t => h = g
            /\ SumSeq([g \in 1..Len(agg) |-> agg[g].Qtd]) = Len(ShownRows)

\* rows of the unmapped regional are shown on their own: two teams, one of
\* them a name outside the team table, and no row lost
C8_Witness ==
    /\ pc = "shown"
    /\ regional_sel = NAO_MAPEADO
    /\ Len(rows_df.val) = 4
    /\ Len(ShownRows) = 3
    /\ Len(agg) = 2
    /\ \E g \in 1..Len(agg) : agg[g].Time = "Ana" /\ agg[g].Qtd = 2

----------------------------------------------------------------------------
(* Properties of map_to_team_or_self *)

\* the entries of the raw table whose key normalises like the name
TeamHits ==
    {i \in 1..Len(TEAM_MAP_RAW) :
        _normalize(JStr(TEAM_MAP_RAW[i][1])) = _normalize(arg)}

\* C10. Team mapping: for every responsible name whose normalized form is a
\* key of the team table map_to_team_or_self returns the mapped team (the
\* value of the last entry with that key); for every other non-empty name it
\* returns the input unchanged; for an empty or null input it returns the
\* unassigned sentinel; so the team is never empty.
C10_TeamMapping ==
    pc = "returned" =>
        /\ TeamHits # {} =>
              ret = JStr(TEAM_MAP_RAW[CHOOSE i \in TeamHits :
                                         \A h \in TeamHits : h <= i][2])
        /\ (TeamHits = {} /\ arg \notin {None, JStr("")}) => ret = arg
        /\ (TeamHits = {} /\ arg \in {None, JStr("")}) => ret = JStr(NAO_ATRIBUIDO)
        /\ ret.kind = "str" /\ ret.val # ""

\* a name written in upper case and padded reaches its team
C10_Witness ==
    /\ pc = "returned"
    /\ arg = JStr("  Time de Ocorrências\t")
    /\ ret = JStr("FLEET DOCUMENTACOES")

----------------------------------------------------------------------------
(* Properties of the stored result *)

\* the columns of rows_df
Columns ==
    {"Time", "TMA_individual", "Responsavel", "ContactId", "Cidade", "Filial",
     "FilialCodigo", "Regional"}

\* the cycle has been through the search, the admin list and every contact
CycleComplete ==
    /\ pc = "contacts"
    /\ pages # <<>> /\ ~Continues(pages[Len(pages)])
    /\ Len(slim) = Len(Flat)
    /\ \E i \in 1..Len(net) : net[i].kind = "admins"
    /\ obj_idx = Len(slim) + 1
    /\ \A i \in 1..Len(slim) :
          LET id == FirstContactId(slim[i])
          IN  /\ id \in DOMAIN contact_map
              /\ Truthy(id) => \E l \in 1..Len(Lookups) : Lookups[l].id = id

\* C12. Atomic publish: the stored result and the stored expiry are written
\* only by the step that ends a cycle which has completed the conversation
\* search, the admin list, all contact lookups and the row building, and
\* are written together (the run's complete rows and its clock plus the
\* validity window); every other step, of a running cycle or aborting one,
\* leaves the store as it was, so the store holds either nothing or the
\* complete result and expiry of an earlier successful cycle, never a
\* partial or empty intermediate one.
C12_AtomicPublish ==
    /\ [](/\ DOMAIN session_state \in {{}, {"rows_df", "expires_at"}}
          /\ session_state # EmptyDict =>
                /\ \A k \in 1..Len(session_state.rows_df) :
                      DOMAIN session_state.rows_df[k] = Columns
                /\ session_state.expires_at \in
                      {t + REFRESH_SECS : t \in 0..now})
    /\ [][ session_state' # session_state =>
              /\ CycleComplete
              /\ pc' = "idle"
              /\ ~raised'
              /\ rows_df' # None
              /\ Len(rows_df'.val) = Len(SelectSeq(slim, Qualifies))
              /\ session_state' = [rows_df    |-> rows_df'.val,
                                   expires_at |-> run_now + REFRESH_SECS]
         ]_vars
    /\ [][ (pc' # "idle" \/ raised') => session_state' = session_state ]_vars

\* a second cycle is in its contact loop, with other conversations than the
\* first, and the store still holds the first cycle's rows and expiry
C12_Witness ==
    /\ pc = "contacts"
    /\ obj_idx = 2
    /\ DOMAIN session_state = {"rows_df", "expires_at"}
    /\ now >= session_state.expires_at
    /\ Len(session_state.rows_df) = 2
    /\ Len(slim) = 1
    /\ rows_df = None

----------------------------------------------------------------------------
(* Properties of the synthetic regional *)

\* the codes regionais_ui lists under the name
CodesOf(name) ==
    UNION {{regionais_ui[i][2][j] : j \in 1..Len(regionais_ui[i][2])} :
              i \in {k \in 1..Len(regionais_ui) : regionais_ui[k][1] = name}}

\* "Luciano" is an option of the filter, lists every code of every base
\* regional and no other, and no code resolves to it
SyntheticIsUnion ==
    /\ \E i \in 1..Len(regionais_disponiveis) : regionais_disponiveis[i] = "Luciano"
    /\ CodesOf("Luciano") =
          UNION {{regionais_base[i][2][j] : j \in 1..Len(regionais_base[i][2])} :
                    i \in 1..Len(regionais_base)}
    /\ \A i \in 1..Len(code_to_regional) : code_to_regional[i][2] # "Luciano"

\* C13. No enriched row ever carries the synthetic regional name "Luciano"
\* as its regional, that name being absent from the code-to-regional map,
\* and so a run in which "Luciano" is selected in the filter has an empty
\* row set and shows no table, also when a row's branch code is one of the
\* codes listed under "Luciano", which are all the codes of the base
\* regionals.
C13_SyntheticRegionalIsEmpty ==
    /\ SyntheticIsUnion
    /\ \A k \in 1..Len(IF rows_df = None THEN <<>> ELSE rows_df.val) :
          rows_df.val[k].Regional # "Luciano"
    /\ (rows_df # None /\ regional_sel = "Luciano") =>
          /\ SelectSeq(rows_df.val, LAMBDA r : r.Regional = regional_sel) = <<>>
          /\ agg = <<>>

\* "Luciano" was selected over rows of which one has a branch code listed
\* under "Luciano", and nothing is shown
C13_Witness ==
    /\ pc = "idle"
    /\ rows_df # None
    /\ regional_sel = "Luciano"
    /\ agg = <<>>
    /\ \E k \in 1..Len(rows_df.val) :
          /\ rows_df.val[k].FilialCodigo = JNum(4)
          /\ 4 \in CodesOf("Luciano")
          /\ rows_df.val[k].Regional = "Francisco"

=============================================================================
